---- MODULE Spec2Model ----
(***************************************************************************)
(* Model of rust_music_vis: the spectrogram pipeline of                    *)
(* src/audio_processor.rs and the application state of src/app.rs.         *)
(*                                                                         *)
(* f64 values are modelled as exact rationals <<n, d>> with d >= 0; d = 0  *)
(* denotes a non-finite value (<<0, 0>> is NaN, <<n, 0>> with n > 0 is     *)
(* +infinity).  Magnitudes are drawn from {0} and powers of ten, on which  *)
(* log10 is exact; colormap inputs are drawn from a grid k/(4*GridQuarter),*)
(* on which the interpolation arithmetic of the colormaps is exact.        *)
(*                                                                         *)
(* The decoder, the mixdown and the transform belong to the external crate *)
(* `aus`.  Its results are inputs of the model: the decoder succeeds or    *)
(* fails, the transform returns some magnitudes, and the number of frames  *)
(* it returns follows one of the framing policies a short-time transform   *)
(* can have (the trailing partial frame dropped or zero-padded).           *)
(***************************************************************************)
EXTENDS Integers, Sequences, FiniteSets, TLC

VARIABLES
    \* create_spectrogram_from_audio: position, arguments, locals, outcome
    pc, fft_size, normalize, colormap,
    audio, stft, magnitude_spectrogram, db_spectrogram, img, result,
    \* one call of a colormap function
    value, color,
    \* AudioVisualizerApp
    selected_audio_path, visualization_texture, is_processing, app_pc, last_result

pipeVars == <<pc, fft_size, normalize, audio, stft,
              magnitude_spectrogram, db_spectrogram, img, result>>
colorVars == <<value, color>>
appVars == <<selected_audio_path, visualization_texture, is_processing,
             app_pc, last_result>>
vars == <<pipeVars, colormap, colorVars, appVars>>

-----------------------------------------------------------------------------
(* Bounds of the model *)

MaxSamples == 2
MaxFft == 4
MaxExp == 7
GridQuarter == 8

(* Program constants *)

DbFloor == -120
AppFftSize == 2048

\* Option<T>: None is the empty set, Some(x) the singleton
None == {}
Some(x) == {x}
unwrap(o) == CHOOSE x \in o : TRUE
Colormaps == {"Viridis", "Magma", "Inferno", "Grayscale", "BlueToRed"}

-----------------------------------------------------------------------------
(* f64 arithmetic on rationals *)

Rat(n, d) == <<n, d>>
Zero == Rat(0, 1)
One == Rat(1, 1)
IsNaN(a) == a[1] = 0 /\ a[2] = 0
IsFinite(a) == a[2] > 0

FDiv(a, b) ==
    LET n == a[1] * b[2]
        d == a[2] * b[1]
    IN  IF d < 0 THEN Rat(-n, -d) ELSE Rat(n, d)
FSub(a, b) == Rat(a[1] * b[2] - b[1] * a[2], a[2] * b[2])
\* a < b; FALSE when either side is NaN
FLt(a, b) ==
    IF IsNaN(a) \/ IsNaN(b) THEN FALSE
    ELSE IF a[2] = 0 THEN a[1] < 0 /\ ~(b[2] = 0 /\ b[1] < 0)
    ELSE IF b[2] = 0 THEN b[1] > 0
    ELSE a[1] * b[2] < b[1] * a[2]
FEq(a, b) == ~IsNaN(a) /\ ~IsNaN(b) /\ ~FLt(a, b) /\ ~FLt(b, a)
\* f64::max: the other operand when one is NaN
FMax(a, b) ==
    IF IsNaN(a) THEN b ELSE IF IsNaN(b) THEN a ELSE IF FLt(a, b) THEN b ELSE a

RECURSIVE Pow10(_)
Pow10(k) == IF k = 0 THEN 1 ELSE 10 * Pow10(k - 1)

RECURSIVE ILog10(_)
ILog10(n) == IF n < 10 THEN 0 ELSE 1 + ILog10(n \div 10)

\* 20.0 * x.log10() for x a positive ratio of powers of ten
Db20Log10(x) == Rat(20 * (ILog10(x[1]) - ILog10(x[2])), 1)

-----------------------------------------------------------------------------
(* magnitude_to_db *)

Values(spectrogram) ==
    UNION {{spectrogram[i][j] : j \in 1..Len(spectrogram[i])} :
           i \in 1..Len(spectrogram)}

\* the fold of f64::max over every value, from 0.0
FoldMax(spectrogram) ==
    LET S == Values(spectrogram) \cup {Zero}
    IN  CHOOSE m \in S : \A w \in S : ~FLt(m, w)

max_val_always_one(spectrogram, norm) == One

max_val(spectrogram, norm) ==
    IF norm THEN FoldMax(spectrogram) ELSE One

normalized_mag(mag, spectrogram, norm) ==
    FDiv(mag, max_val(spectrogram, norm))

\* the guard in front of log10
log_guard(x) == FLt(Zero, x)

clipped_db(mag, spectrogram, db_floor, norm) ==
    LET x == normalized_mag(mag, spectrogram, norm)
        db == IF log_guard(x) THEN Db20Log10(x) ELSE db_floor
    IN  FMax(db, db_floor)

\* the rescaling of the dB values to [0, 1]
rescale(db, db_floor) ==
    LET min_db == db_floor
        max_db == Zero
    IN  FDiv(FSub(db, min_db), FSub(max_db, min_db))

magnitude_to_db(spectrogram, db_floor, norm) ==
    [i \in 1..Len(spectrogram) |->
        [j \in 1..Len(spectrogram[i]) |->
            LET c == clipped_db(spectrogram[i][j], spectrogram, db_floor, norm)
            IN  IF norm THEN rescale(c, db_floor) ELSE c]]

\* the arguments log10 is evaluated on
LogArgs(spectrogram, norm) ==
    {x \in {normalized_mag(m, spectrogram, norm) : m \in Values(spectrogram)} :
        log_guard(x)}

-----------------------------------------------------------------------------
(* Colormaps *)

\* value.clamp(0.0, 1.0)
clamp01(v) == IF FLt(v, Zero) THEN Zero ELSE IF FLt(One, v) THEN One ELSE v

\* x as u8 for x = n/d: truncation, saturating at 0 and 255
as_u8(n, d) ==
    IF n < 0 THEN 0 ELSE IF n \div d > 255 THEN 255 ELSE n \div d

\* (c0 * (1.0 - t) + c1 * t) as u8
lerp(c0, c1, t) == as_u8(c0 * (t[2] - t[1]) + c1 * t[1], t[2])

lerp3(a, b, t) == <<lerp(a[1], b[1], t), lerp(a[2], b[2], t), lerp(a[3], b[3], t)>>

\* the segment of v (0..3) and its local parameter t
segment_of(v) ==
    IF FLt(v, Rat(1, 4)) THEN 0
    ELSE IF FLt(v, Rat(1, 2)) THEN 1
    ELSE IF FLt(v, Rat(3, 4)) THEN 2
    ELSE 3

\* (v - seg * 0.25) / 0.25
segment_t(v, seg) == Rat(4 * v[1] - seg * v[2], v[2])

viridis_segment_shifted(seg, t) ==
    CASE seg = 0 -> lerp3(<<68, 1, 84>>, <<33, 144, 140>>, t)
      [] seg = 1 -> lerp3(<<33, 144, 140>>, <<73, 211, 121>>, t)
      [] seg = 2 -> lerp3(<<73, 211, 120>>, <<190, 206, 86>>, t)
      [] seg = 3 -> lerp3(<<190, 206, 86>>, <<253, 231, 37>>, t)

viridis_segment(seg, t) ==
    CASE seg = 0 -> lerp3(<<68, 1, 84>>, <<33, 144, 140>>, t)
      [] seg = 1 -> lerp3(<<33, 144, 140>>, <<73, 211, 121>>, t)
      [] seg = 2 -> lerp3(<<73, 211, 121>>, <<190, 206, 86>>, t)
      [] seg = 3 -> lerp3(<<190, 206, 86>>, <<253, 231, 37>>, t)

magma_segment(seg, t) ==
    CASE seg = 0 -> lerp3(<<0, 0, 0>>, <<88, 24, 69>>, t)
      [] seg = 1 -> lerp3(<<88, 24, 69>>, <<188, 80, 144>>, t)
      [] seg = 2 -> lerp3(<<188, 80, 144>>, <<249, 163, 137>>, t)
      [] seg = 3 -> lerp3(<<249, 163, 137>>, <<253, 231, 240>>, t)

inferno_segment(seg, t) ==
    CASE seg = 0 -> lerp3(<<0, 0, 0>>, <<73, 11, 68>>, t)
      [] seg = 1 -> lerp3(<<73, 11, 68>>, <<184, 71, 55>>, t)
      [] seg = 2 -> lerp3(<<184, 71, 55>>, <<253, 173, 47>>, t)
      [] seg = 3 -> lerp3(<<253, 173, 47>>, <<252, 255, 164>>, t)

viridis_colormap(val) ==
    LET v == clamp01(val)
        seg == segment_of(v)
    IN  viridis_segment(seg, segment_t(v, seg))

magma_colormap(val) ==
    LET v == clamp01(val)
        seg == segment_of(v)
    IN  magma_segment(seg, segment_t(v, seg))

inferno_colormap(val) ==
    LET v == clamp01(val)
        seg == segment_of(v)
    IN  inferno_segment(seg, segment_t(v, seg))

grayscale_colormap(val) ==
    LET c == clamp01(val)
        v == as_u8(c[1] * 255, c[2])
    IN  <<v, v, v>>

blue_to_red_swapped(val) ==
    LET v == clamp01(val)
    IN  <<as_u8((v[2] - v[1]) * 255, v[2]), 0, as_u8(v[1] * 255, v[2])>>

blue_to_red_colormap(val) ==
    LET v == clamp01(val)
        r == as_u8(v[1] * 255, v[2])
        b == as_u8((v[2] - v[1]) * 255, v[2])
        g == 0
    IN  <<r, g, b>>

\* the match on the colormap in spectrogram_to_image
color_of(cmap, val) ==
    CASE cmap = "Viridis" -> viridis_colormap(val)
      [] cmap = "Magma" -> magma_colormap(val)
      [] cmap = "Inferno" -> inferno_colormap(val)
      [] cmap = "Grayscale" -> grayscale_colormap(val)
      [] cmap = "BlueToRed" -> blue_to_red_colormap(val)

-----------------------------------------------------------------------------
(* spectrogram_to_image and convert_image_to_egui_image.  Indices of the   *)
(* code are 0-based, sequences here are 1-based.                           *)

y_inv_plain(height, y) == y

y_inv(height, y) == height - 1 - y

\* ImageBuffer::new (zero-filled, 3 bytes per pixel, row-major) after every
\* put_pixel(x, y_inv, color) of the two loops
spectrogram_to_image(spectrogram, cmap) ==
    LET height == Len(spectrogram[1])
        width == Len(spectrogram)
        pixel(col, row) ==
            LET ys == {y \in 0..(Len(spectrogram[col + 1]) - 1) : y_inv(height, y) = row}
            IN  IF ys = {} THEN <<0, 0, 0>>
                ELSE color_of(cmap, spectrogram[col + 1][(CHOOSE y \in ys : \A z \in ys : z <= y) + 1])
    IN  [width |-> width, height |-> height,
         raw |-> [i \in 1..(width * height * 3) |->
                    LET p == (i - 1) \div 3
                    IN  pixel(p % width, p \div width)[((i - 1) % 3) + 1]]]

\* chunks(3) of the raw buffer, each followed by 255
convert_image_to_egui_image(image) ==
    [size |-> <<image.width, image.height>>,
     rgba |-> [j \in 1..((Len(image.raw) \div 3) * 4) |->
                 IF (j - 1) % 4 = 3 THEN 255
                 ELSE image.raw[((j - 1) \div 4) * 3 + ((j - 1) % 4) + 1]]]

-----------------------------------------------------------------------------
(* create_spectrogram_from_audio *)

\* what aus::read finds at a path: a decodable file or not, its channels and
\* its samples per channel
Files == [ok : BOOLEAN, num_channels : 1..2, num_samples : 0..MaxSamples]

\* magnitudes the transform may return
Mags == {Rat(0, 1), Rat(1, 1), Rat(10, 1), Rat(Pow10(MaxExp), 1)}

NoAudio == [num_channels |-> 0, num_samples |-> 0]
NoImage == [size |-> <<0, 0>>, rgba |-> <<>>]
NoRaw == [width |-> 0, height |-> 0, raw |-> <<>>]
NoResult == [kind |-> "None", msg |-> "", image |-> NoImage]
Err(m) == [kind |-> "Err", msg |-> m, image |-> NoImage]
Ok(image) == [kind |-> "Ok", msg |-> "", image |-> image]
Panic(m) == [kind |-> "Panic", msg |-> m, image |-> NoImage]

hop_size(F) == F \div 2

\* The framing of aus::spectrum::rstft is not part of this repository.  A
\* short-time transform walks the buffer in steps of H in one of three ways;
\* each is given with the number of frames it returns, NoReturn when its loop
\* cannot end (H = 0 and frames left to emit).
NoReturn == 0 - 1

\* while start + F <= S: the trailing partial frame is dropped
frames_dropping(S, F, H) ==
    IF S < F THEN 0
    ELSE IF H = 0 THEN NoReturn
    ELSE ((S - F) \div H) + 1

\* while start < S: every started frame is emitted, zero-padded
frames_padding(S, F, H) ==
    IF S = 0 THEN 0
    ELSE IF H = 0 THEN NoReturn
    ELSE (S + H - 1) \div H

\* repeat .. until start + F >= S: at least one frame, the last zero-padded
frames_padding_last(S, F, H) ==
    IF S <= F THEN 1
    ELSE IF H = 0 THEN NoReturn
    ELSE ((S - F + H - 1) \div H) + 1

FramingPolicies == {"drop", "pad", "pad_last"}

rstft_frames(S, F, H, policy) ==
    CASE policy = "drop" -> frames_dropping(S, F, H)
      [] policy = "pad" -> frames_padding(S, F, H)
      [] policy = "pad_last" -> frames_padding_last(S, F, H)

\* bins of a real transform of F samples
rstft_bins(F) == (F \div 2) + 1

PipeInit ==
    /\ pc = "start"
    /\ fft_size \in 0..MaxFft
    /\ normalize \in BOOLEAN
    /\ colormap \in Colormaps
    /\ audio = NoAudio
    /\ stft = 0
    /\ magnitude_spectrogram = <<>>
    /\ db_spectrogram = <<>>
    /\ img = NoRaw
    /\ result = NoResult

ColorIdle == value = Zero /\ color = <<0, 0, 0>>

AppIdle ==
    /\ selected_audio_path = None
    /\ visualization_texture = None
    /\ is_processing = FALSE
    /\ app_pc = "idle"
    /\ last_result = "None"

Init == PipeInit /\ ColorIdle /\ AppIdle

\* read(file_path) fails
ReadFailed ==
    /\ pc = "start"
    /\ \E f \in Files :
        /\ ~f.ok
        /\ result' = Err("Failed to load audio")
    /\ pc' = "returned"
    /\ UNCHANGED <<fft_size, normalize, colormap, audio, stft,
                   magnitude_spectrogram, db_spectrogram, img>>
    /\ UNCHANGED <<colorVars, appVars>>

Read ==
    /\ pc = "start"
    /\ \E f \in Files :
        /\ f.ok
        /\ audio' = [num_channels |-> f.num_channels, num_samples |-> f.num_samples]
    /\ pc' = "read"
    /\ UNCHANGED <<fft_size, normalize, colormap, stft,
                   magnitude_spectrogram, db_spectrogram, img, result>>
    /\ UNCHANGED <<colorVars, appVars>>

Mixdown ==
    /\ pc = "read"
    /\ audio' = IF audio.num_channels > 1
                THEN [audio EXCEPT !.num_channels = 1]
                ELSE audio
    /\ pc' = "mixed"
    /\ UNCHANGED <<fft_size, normalize, colormap, stft,
                   magnitude_spectrogram, db_spectrogram, img, result>>
    /\ UNCHANGED <<colorVars, appVars>>

\* with a hop of 0 the transform cannot advance: the call does not return
RstftNoReturn ==
    /\ pc = "mixed"
    /\ \E policy \in FramingPolicies :
        rstft_frames(audio.num_samples, fft_size, hop_size(fft_size), policy) = NoReturn
    /\ result' = Panic("rstft: hop_size 0")
    /\ pc' = "aborted"
    /\ UNCHANGED <<fft_size, normalize, colormap, audio, stft,
                   magnitude_spectrogram, db_spectrogram, img>>
    /\ UNCHANGED <<colorVars, appVars>>

Rstft ==
    /\ pc = "mixed"
    /\ \E policy \in FramingPolicies :
        /\ rstft_frames(audio.num_samples, fft_size, hop_size(fft_size), policy) # NoReturn
        /\ stft' = rstft_frames(audio.num_samples, fft_size, hop_size(fft_size), policy)
    /\ pc' = "stft"
    /\ UNCHANGED <<fft_size, normalize, colormap, audio,
                   magnitude_spectrogram, db_spectrogram, img, result>>
    /\ UNCHANGED <<colorVars, appVars>>

ComplexToPolar ==
    /\ pc = "stft"
    /\ magnitude_spectrogram' \in [1..stft -> [1..rstft_bins(fft_size) -> Mags]]
    /\ pc' = "polar"
    /\ UNCHANGED <<fft_size, normalize, colormap, audio, stft,
                   db_spectrogram, img, result>>
    /\ UNCHANGED <<colorVars, appVars>>

MagnitudeToDb ==
    /\ pc = "polar"
    /\ db_spectrogram' = magnitude_to_db(magnitude_spectrogram, Rat(DbFloor, 1), normalize)
    /\ pc' = "db"
    /\ UNCHANGED <<fft_size, normalize, colormap, audio, stft,
                   magnitude_spectrogram, img, result>>
    /\ UNCHANGED <<colorVars, appVars>>

\* spectrogram[0] of an empty spectrogram
SpectrogramToImagePanic ==
    /\ pc = "db"
    /\ Len(db_spectrogram) = 0
    /\ result' = Panic("index out of bounds: spectrogram[0]")
    /\ pc' = "aborted"
    /\ UNCHANGED <<fft_size, normalize, colormap, audio, stft,
                   magnitude_spectrogram, db_spectrogram, img>>
    /\ UNCHANGED <<colorVars, appVars>>

SpectrogramToImage ==
    /\ pc = "db"
    /\ Len(db_spectrogram) > 0
    /\ img' = spectrogram_to_image(db_spectrogram, colormap)
    /\ pc' = "image"
    /\ UNCHANGED <<fft_size, normalize, colormap, audio, stft,
                   magnitude_spectrogram, db_spectrogram, result>>
    /\ UNCHANGED <<colorVars, appVars>>

ConvertImage ==
    /\ pc = "image"
    /\ result' = Ok(convert_image_to_egui_image(img))
    /\ pc' = "returned"
    /\ UNCHANGED <<fft_size, normalize, colormap, audio, stft,
                   magnitude_spectrogram, db_spectrogram, img>>
    /\ UNCHANGED <<colorVars, appVars>>

Next ==
    \/ ReadFailed
    \/ Read
    \/ Mixdown
    \/ RstftNoReturn
    \/ Rstft
    \/ ComplexToPolar
    \/ MagnitudeToDb
    \/ SpectrogramToImagePanic
    \/ SpectrogramToImage
    \/ ConvertImage

Spec == Init /\ [][Next]_vars

-----------------------------------------------------------------------------
(* One call of a colormap function *)

PipeIdle ==
    /\ pc = "idle"
    /\ fft_size = 0
    /\ normalize = FALSE
    /\ audio = NoAudio
    /\ stft = 0
    /\ magnitude_spectrogram = <<>>
    /\ db_spectrogram = <<>>
    /\ img = NoRaw
    /\ result = NoResult

\* inputs k / (4 * GridQuarter), some below 0 and some above 1
Grid == {Rat(k, 4 * GridQuarter) : k \in (-2)..(4 * GridQuarter + 2)}

NotCalled == <<>>

ColorInit ==
    /\ PipeIdle
    /\ AppIdle
    /\ colormap \in Colormaps
    /\ value \in Grid
    /\ color = NotCalled

ColormapCall ==
    /\ color = NotCalled
    /\ color' = color_of(colormap, value)
    /\ UNCHANGED <<pipeVars, colormap, value, appVars>>

ColorNext ==
    \/ ColormapCall

SpecColor == ColorInit /\ [][ColorNext]_vars

-----------------------------------------------------------------------------
(* AudioVisualizerApp *)

AppSampleCounts == {0, 100, 2048, 3072, 44100}

\* what the picked path holds
AppFiles == [ok : BOOLEAN, num_channels : 1..2, num_samples : AppSampleCounts]

\* the outcomes of create_spectrogram_from_audio on a file, the image
\* reduced to its size
create_spectrogram_outcomes(f, F) ==
    IF ~f.ok THEN {[kind |-> "Err", size |-> <<0, 0>>]}
    ELSE {LET n == rstft_frames(f.num_samples, F, hop_size(F), policy)
          IN  IF n = NoReturn \/ n = 0 THEN [kind |-> "Panic", size |-> <<0, 0>>]
              ELSE [kind |-> "Ok", size |-> <<n, rstft_bins(F)>>] :
          policy \in FramingPolicies}

\* ctx.load_texture("audio_vis", image, ..)
create_texture(f, size) == [of |-> f, size |-> size]

AppInit == PipeIdle /\ ColorIdle /\ colormap = "Viridis" /\ AppIdle

\* self.selected_audio_path = Some(..); update_visualization up to the call
\* of the pipeline
begin_update_visualization(f) ==
    /\ selected_audio_path' = Some(f)
    /\ is_processing' = TRUE
    /\ app_pc' = "processing"
    /\ UNCHANGED <<visualization_texture, last_result>>
    /\ UNCHANGED <<pipeVars, colormap, colorVars>>

\* File > Open Audio File...
OpenAudioFile ==
    /\ app_pc = "idle"
    /\ \E f \in AppFiles : begin_update_visualization(f)

\* the Select Audio File button, shown while no file is selected
SelectAudioFile ==
    /\ app_pc = "idle"
    /\ selected_audio_path = None
    /\ \E f \in AppFiles : begin_update_visualization(f)

UpdateVisualizationOk ==
    /\ app_pc = "processing"
    /\ \E o \in create_spectrogram_outcomes(unwrap(selected_audio_path), AppFftSize) :
        /\ o.kind = "Ok"
        /\ visualization_texture' = Some(create_texture(unwrap(selected_audio_path), o.size))
    /\ is_processing' = FALSE
    /\ last_result' = "Ok"
    /\ app_pc' = "idle"
    /\ UNCHANGED selected_audio_path
    /\ UNCHANGED <<pipeVars, colormap, colorVars>>

UpdateVisualizationErr_flag_kept ==
    /\ app_pc = "processing"
    /\ \E o \in create_spectrogram_outcomes(unwrap(selected_audio_path), AppFftSize) :
        o.kind = "Err"
    /\ last_result' = "Err"
    /\ app_pc' = "idle"
    /\ UNCHANGED <<selected_audio_path, visualization_texture, is_processing>>
    /\ UNCHANGED <<pipeVars, colormap, colorVars>>

UpdateVisualizationErr_texture_cleared ==
    /\ app_pc = "processing"
    /\ \E o \in create_spectrogram_outcomes(unwrap(selected_audio_path), AppFftSize) :
        o.kind = "Err"
    /\ is_processing' = FALSE
    /\ visualization_texture' = None
    /\ last_result' = "Err"
    /\ app_pc' = "idle"
    /\ UNCHANGED selected_audio_path
    /\ UNCHANGED <<pipeVars, colormap, colorVars>>

UpdateVisualizationErr ==
    /\ app_pc = "processing"
    /\ \E o \in create_spectrogram_outcomes(unwrap(selected_audio_path), AppFftSize) :
        o.kind = "Err"
    /\ is_processing' = FALSE
    /\ last_result' = "Err"
    /\ app_pc' = "idle"
    /\ UNCHANGED <<selected_audio_path, visualization_texture>>
    /\ UNCHANGED <<pipeVars, colormap, colorVars>>

\* the pipeline panics: update_visualization never returns
UpdateVisualizationPanic ==
    /\ app_pc = "processing"
    /\ \E o \in create_spectrogram_outcomes(unwrap(selected_audio_path), AppFftSize) :
        o.kind = "Panic"
    /\ last_result' = "Panic"
    /\ app_pc' = "aborted"
    /\ UNCHANGED <<selected_audio_path, visualization_texture, is_processing>>
    /\ UNCHANGED <<pipeVars, colormap, colorVars>>

AppNext ==
    \/ OpenAudioFile
    \/ SelectAudioFile
    \/ UpdateVisualizationOk
    \/ UpdateVisualizationErr
    \/ UpdateVisualizationPanic

SpecApp == AppInit /\ [][AppNext]_vars

-----------------------------------------------------------------------------
(* Properties *)

RECURSIVE IsPowerOfTwo(_)
IsPowerOfTwo(n) == n >= 1 /\ (n = 1 \/ (n % 2 = 0 /\ IsPowerOfTwo(n \div 2)))

Finished == pc \in {"returned", "aborted"}
Decoded == audio # NoAudio

\* a complete image: its size, and a buffer of width * height * 4 bytes
CompleteImage(image) ==
    /\ image.size[1] > 0
    /\ image.size[2] > 0
    /\ Len(image.rgba) = image.size[1] * image.size[2] * 4

\* C1: every call of create_spectrogram_from_audio ends by returning an
\* error or a complete image; it never aborts.
C1_ErrorOrCompleteImage ==
    Finished =>
        \/ pc = "returned" /\ result.kind = "Err"
        \/ pc = "returned" /\ result.kind = "Ok" /\ CompleteImage(result.image)

\* C2: a decoded buffer with fewer samples than fft_size ends the call with
\* the InsufficientSamples error (no panic, no image).
C2_InsufficientSamples ==
    (Finished /\ Decoded /\ audio.num_samples < fft_size) =>
        (pc = "returned" /\ result.kind = "Err" /\ result.msg = "InsufficientSamples")

\* C3: with an fft_size that is zero or no power of two, no sample
\* processing (mixdown, framing, transform) takes place and the call ends
\* with the InvalidFftSize error.
C3_InvalidFftSize ==
    ~IsPowerOfTwo(fft_size) =>
        /\ pc \in {"start", "read", "returned"}
        /\ (pc = "returned" /\ Decoded) =>
              (result.kind = "Err" /\ result.msg = "InvalidFftSize")

\* the states in which magnitude_to_db has run
DbDone == pc \in {"db", "image"} \/ (pc = "returned" /\ result.kind = "Ok")

Cells == {<<i, j>> \in (1..Len(magnitude_spectrogram)) \X (1..rstft_bins(fft_size)) : TRUE}

IsGlobalMax(c) ==
    \A e \in Cells :
        magnitude_spectrogram[e[1]][e[2]][1] <= magnitude_spectrogram[c[1]][c[2]][1]

InUnitRange(x) == x[2] > 0 /\ 0 <= x[1] /\ x[1] <= x[2]
ExactlyOne(x) == x[2] > 0 /\ x[1] = x[2]
ExactlyZero(x) == x[2] > 0 /\ x[1] = 0

\* C5 (as claimed): with normalize = true every output lies in [0, 1], the
\* bin of the global maximum magnitude is exactly 1.0, every bin of magnitude
\* 0 is exactly 0.0, and log10 is evaluated on positive arguments only.
C5_NormalizedRange_AsClaimed ==
    (DbDone /\ normalize) =>
        /\ \A c \in Cells : InUnitRange(db_spectrogram[c[1]][c[2]])
        /\ \A c \in Cells : IsGlobalMax(c) => ExactlyOne(db_spectrogram[c[1]][c[2]])
        /\ \A c \in Cells :
              magnitude_spectrogram[c[1]][c[2]][1] = 0 =>
                  ExactlyZero(db_spectrogram[c[1]][c[2]])
        /\ \A x \in LogArgs(magnitude_spectrogram, normalize) : x[1] > 0 /\ x[2] > 0

\* C5 (amended): as claimed, the bin of the global maximum magnitude being
\* exactly 1.0 only when that maximum is positive; an all-zero spectrogram
\* maps to 0.0 everywhere.
C5_NormalizedRange ==
    (DbDone /\ normalize) =>
        /\ \A c \in Cells : InUnitRange(db_spectrogram[c[1]][c[2]])
        /\ \A c \in Cells :
              (IsGlobalMax(c) /\ magnitude_spectrogram[c[1]][c[2]][1] > 0) =>
                  ExactlyOne(db_spectrogram[c[1]][c[2]])
        /\ \A c \in Cells :
              magnitude_spectrogram[c[1]][c[2]][1] = 0 =>
                  ExactlyZero(db_spectrogram[c[1]][c[2]])
        /\ \A x \in LogArgs(magnitude_spectrogram, normalize) : x[1] > 0 /\ x[2] > 0

\* a normalized spectrogram with a zero bin, a loudest bin and a bin strictly
\* between floor and maximum
C5_Witness ==
    /\ DbDone
    /\ normalize
    /\ \E c \in Cells : magnitude_spectrogram[c[1]][c[2]][1] = 0
    /\ \E c \in Cells : IsGlobalMax(c) /\ magnitude_spectrogram[c[1]][c[2]][1] > 0
    /\ \E c \in Cells :
          LET x == db_spectrogram[c[1]][c[2]] IN 0 < x[1] /\ x[1] < x[2]
    /\ LogArgs(magnitude_spectrogram, normalize) # {}

\* the RGBA bytes of the pixel at column x, row r (0-based)
PixelAt(image, x, r) ==
    LET base == (r * image.size[1] + x) * 4
    IN  <<image.rgba[base + 1], image.rgba[base + 2],
          image.rgba[base + 3], image.rgba[base + 4]>>

\* C6: the color of spectrogram[x][y] is at column x, row height - 1 - y;
\* every pixel has alpha 255; the buffer holds width * height * 4 bytes.
C6_ImageLayout ==
    (pc = "returned" /\ result.kind = "Ok") =>
        LET w == Len(db_spectrogram)
            h == Len(db_spectrogram[1])
            image == result.image
        IN  /\ image.size = <<w, h>>
            /\ Len(image.rgba) = w * h * 4
            /\ \A x \in 0..(w - 1) : \A y \in 0..(h - 1) :
                  PixelAt(image, x, h - 1 - y) =
                      color_of(colormap, db_spectrogram[x + 1][y + 1]) \o <<255>>

\* an image of several columns and rows in which a frame's bin 0 and its
\* highest bin have different colors
C6_Witness ==
    /\ pc = "returned"
    /\ result.kind = "Ok"
    /\ Len(db_spectrogram) >= 2
    /\ Len(db_spectrogram[1]) >= 2
    /\ \E x \in 1..Len(db_spectrogram) :
          color_of(colormap, db_spectrogram[x][1]) #
              color_of(colormap, db_spectrogram[x][Len(db_spectrogram[x])])

SegmentPalettes == {"Viridis", "Magma", "Inferno"}

\* the anchor colors at 0.00, 0.25, 0.50, 0.75, 1.00
AnchorTable(cmap) ==
    CASE cmap = "Viridis" ->
            <<<<68, 1, 84>>, <<33, 144, 140>>, <<73, 211, 121>>, <<190, 206, 86>>, <<253, 231, 37>>>>
      [] cmap = "Magma" ->
            <<<<0, 0, 0>>, <<88, 24, 69>>, <<188, 80, 144>>, <<249, 163, 137>>, <<253, 231, 240>>>>
      [] cmap = "Inferno" ->
            <<<<0, 0, 0>>, <<73, 11, 68>>, <<184, 71, 55>>, <<253, 173, 47>>, <<252, 255, 164>>>>

SegmentColor(cmap, seg, t) ==
    CASE cmap = "Viridis" -> viridis_segment(seg, t)
      [] cmap = "Magma" -> magma_segment(seg, t)
      [] cmap = "Inferno" -> inferno_segment(seg, t)

Called == color # NotCalled

\* C7: for Viridis, Magma and Inferno the color at v = 0.25, 0.5, 0.75 is
\* the anchor color, and so are the segment below at t = 1 and the segment
\* above at t = 0; inputs at or below 0 give the first anchor, inputs at or
\* above 1 the last.
C7_BoundaryContinuity ==
    (Called /\ colormap \in SegmentPalettes) =>
        /\ \A k \in 1..3 :
              FEq(value, Rat(k, 4)) =>
                  /\ color = AnchorTable(colormap)[k + 1]
                  /\ SegmentColor(colormap, k - 1, One) = AnchorTable(colormap)[k + 1]
                  /\ SegmentColor(colormap, k, Zero) = AnchorTable(colormap)[k + 1]
        /\ ~FLt(Zero, value) => color = AnchorTable(colormap)[1]
        /\ ~FLt(value, One) => color = AnchorTable(colormap)[5]

C7_Witness ==
    /\ Called
    /\ colormap = "Inferno"
    /\ FEq(value, Rat(3, 4))
    /\ color = <<253, 173, 47>>

\* floor(v * 255) and round(v * 255) for v = n/d in [0, 1]
Floor255(v) == (v[1] * 255) \div v[2]
Round255(v) == (2 * v[1] * 255 + v[2]) \div (2 * v[2])
OneMinus(v) == Rat(v[2] - v[1], v[2])

\* C8 (as claimed): Grayscale is round(v * 255) on every channel, BlueToRed
\* is (round(v * 255), 0, round((1 - v) * 255)), v clamped to [0, 1].
C8_Rounded_AsClaimed ==
    Called =>
        LET v == clamp01(value)
        IN  /\ colormap = "Grayscale" =>
                  color = <<Round255(v), Round255(v), Round255(v)>>
            /\ colormap = "BlueToRed" =>
                  color = <<Round255(v), 0, Round255(OneMinus(v))>>

\* C8 (amended): the components are truncated, not rounded: Grayscale is
\* floor(v * 255) on every channel, BlueToRed is (floor(v * 255), 0,
\* floor((1 - v) * 255)); the colors at 0.0 and 1.0 are as claimed.
C8_Truncated ==
    Called =>
        LET v == clamp01(value)
        IN  /\ colormap = "Grayscale" =>
                  color = <<Floor255(v), Floor255(v), Floor255(v)>>
            /\ colormap = "BlueToRed" =>
                  color = <<Floor255(v), 0, Floor255(OneMinus(v))>>
            /\ (colormap = "Grayscale" /\ ~FLt(Zero, value)) => color = <<0, 0, 0>>
            /\ (colormap = "Grayscale" /\ ~FLt(value, One)) => color = <<255, 255, 255>>
            /\ (colormap = "BlueToRed" /\ ~FLt(Zero, value)) => color = <<0, 0, 255>>
            /\ (colormap = "BlueToRed" /\ ~FLt(value, One)) => color = <<255, 0, 0>>

\* BlueToRed at 0.5, where truncation and rounding differ
C8_Witness ==
    /\ Called
    /\ colormap = "BlueToRed"
    /\ FEq(value, Rat(1, 2))
    /\ color = <<127, 0, 127>>

\* C9: while the pipeline runs for a selected path is_processing is true,
\* and whenever update_visualization has returned, with Ok or with Err,
\* is_processing is false and exactly one of image and error was delivered.
C9_FlagCleared ==
    /\ app_pc = "processing" => (is_processing = TRUE /\ selected_audio_path # None)
    /\ app_pc = "idle" =>
        /\ is_processing = FALSE
        /\ selected_audio_path # None => last_result \in {"Ok", "Err"}
        /\ last_result = "Ok" => visualization_texture # None

\* a second selection has failed after a first one succeeded
C9_Witness ==
    /\ app_pc = "idle"
    /\ last_result = "Err"
    /\ visualization_texture # None
    /\ is_processing = FALSE

\* C10: an Err result leaves visualization_texture as it was, with
\* selected_audio_path holding the new path; the texture changes only on Ok.
C10_TextureKeptOnErr ==
    [][/\ (app_pc = "processing" /\ last_result' = "Err") =>
            /\ visualization_texture' = visualization_texture
            /\ selected_audio_path' = selected_audio_path
       /\ visualization_texture' # visualization_texture => last_result' = "Ok"]_vars

\* after an Err, the texture of an earlier file is shown beside the new path
C10_Witness ==
    /\ app_pc = "idle"
    /\ last_result = "Err"
    /\ visualization_texture # None
    /\ selected_audio_path # None
    /\ unwrap(visualization_texture).of # unwrap(selected_audio_path)
    /\ ~unwrap(selected_audio_path).ok

====
